---- MODULE Spec2Model ----
(***************************************************************************)
(* Model of the ML prediction service of src/python/main.py: the           *)
(* process-wide SimpleModel (a weight vector drawn once at start-up), the  *)
(* three HTTP handlers root, health_check and predict, and the wall clock  *)
(* the handlers read.                                                      *)
(*                                                                         *)
(* Floating-point numbers are modelled as fixed-point values with Scale    *)
(* units per 1.0, extended with the IEEE specials: a magnitude above FMax  *)
(* overflows to +inf/-inf, and inf - inf and 0 * inf are NaN.              *)
(***************************************************************************)
EXTENDS Integers, Sequences, FiniteSets, TLC

VARIABLES weights, clock, slots, log, calls, direct

vars == <<weights, clock, slots, log, calls, direct>>

(***************************************************************************)
(* Bounds of the model                                                     *)
(***************************************************************************)
Scale == 100          \* fixed-point units per 1.0
FMax == 30000         \* largest finite magnitude (300.00)
MaxLen == 11          \* longest feature list submitted
NumClients == 2       \* requests that can be in flight at once
MaxCalls == 2         \* requests handled in one run
MaxTicks == 1         \* clock advances in one run
TickMicros == 500000  \* microseconds per clock advance

(***************************************************************************)
(* Floating point                                                          *)
(***************************************************************************)
Fin(n) == [k |-> "fin", v |-> n]
PosInf == [k |-> "inf", v |-> 1]
NegInf == [k |-> "inf", v |-> -1]
NaN == [k |-> "nan", v |-> 0]

IsNaN(x) == x.k = "nan"
IsInf(x) == x.k = "inf"
IsFin(x) == x.k = "fin"

Sign(n) == IF n > 0 THEN 1 ELSE IF n < 0 THEN -1 ELSE 0
Mag(n) == IF n < 0 THEN -n ELSE n

\* rounding of an exact result to a float: overflow gives an infinity
Round(n) == IF n > FMax THEN PosInf ELSE IF n < -FMax THEN NegInf ELSE Fin(n)

FSign(x) == IF IsInf(x) THEN x.v ELSE Sign(x.v)

FAdd(x, y) ==
    IF IsNaN(x) \/ IsNaN(y) THEN NaN
    ELSE IF IsInf(x) /\ IsInf(y) THEN (IF x.v = y.v THEN x ELSE NaN)
    ELSE IF IsInf(x) THEN x
    ELSE IF IsInf(y) THEN y
    ELSE Round(x.v + y.v)

FMul(x, y) ==
    IF IsNaN(x) \/ IsNaN(y) THEN NaN
    ELSE IF IsInf(x) \/ IsInf(y)
         THEN (IF FSign(x) * FSign(y) = 0 THEN NaN
               ELSE IF FSign(x) * FSign(y) > 0 THEN PosInf ELSE NegInf)
    ELSE Round(Sign(x.v) * Sign(y.v) * ((Mag(x.v) * Mag(y.v)) \div Scale))

FAbs(x) == IF IsNaN(x) THEN NaN ELSE IF IsInf(x) THEN PosInf ELSE Fin(Mag(x.v))

\* division by a positive integer
FDivInt(x, d) == IF IsFin(x) THEN Fin(Sign(x.v) * (Mag(x.v) \div d)) ELSE x

\* x < y; every comparison with NaN is false
FLess(x, y) ==
    IF IsNaN(x) \/ IsNaN(y) THEN FALSE
    ELSE IF IsInf(x) /\ IsInf(y) THEN x.v < y.v
    ELSE IF IsInf(x) THEN x.v < 0
    ELSE IF IsInf(y) THEN y.v > 0
    ELSE x.v < y.v

FLeq(x, y) == ~IsNaN(x) /\ ~IsNaN(y) /\ ~FLess(y, x)

\* min with the comparison turned round: a NaN second argument comes back
PyMin_Swapped(a, b) == IF FLess(a, b) THEN a ELSE b

\* the builtin min(a, b): b when b < a, else a
PyMin(a, b) == IF FLess(b, a) THEN b ELSE a

(***************************************************************************)
(* SimpleModel                                                             *)
(***************************************************************************)
FeatureDim == 10
\* 0.95
ConfidenceCap == Fin((95 * Scale) \div 100)

Odd(i) == i % 2 = 1

WeightVals == {50, 200}

\* weight vectors np.random.randn(10) can draw: ten finite numbers
WeightVec(x, y) == [i \in 1..FeatureDim |-> IF Odd(i) THEN Fin(x) ELSE Fin(y)]

WeightVectors == UNION { { WeightVec(x, y) : y \in {x, -200} } : x \in WeightVals }

RECURSIVE DotUpTo_Sum(_, _, _)
\* adds each feature to its weight instead of multiplying them
DotUpTo_Sum(f, w, n) ==
    IF n = 0 THEN Fin(0) ELSE FAdd(DotUpTo_Sum(f, w, n - 1), FAdd(f[n], w[n]))

RECURSIVE DotUpTo(_, _, _)
DotUpTo(f, w, n) ==
    IF n = 0 THEN Fin(0) ELSE FAdd(DotUpTo(f, w, n - 1), FMul(f[n], w[n]))

\* leaves the last element out of the product
Dot_SkipLast(f, w) == DotUpTo(f, w, Len(f) - 1)

Dot(f, w) == DotUpTo(f, w, Len(f))

\* takes the ratio of the signed prediction
Confidence_NoAbs(prediction) == PyMin(ConfidenceCap, FDivInt(prediction, 10))

Confidence(prediction) == PyMin(ConfidenceCap, FDivInt(FAbs(prediction), 10))

ValueError(msg) == [type |-> "ValueError", status_code |-> 0, detail |-> msg]

HTTPException(code, msg) ==
    [type |-> "HTTPException", status_code |-> code, detail |-> msg]

NoExc == [type |-> "none", status_code |-> 0, detail |-> ""]

NoFloat == Fin(0)

\* SimpleModel.predict: the outcome of one call
ModelPredict(features, w) ==
    IF Len(features) # Len(w)
    THEN [raised |-> ValueError("Feature dimension mismatch"),
          prediction |-> NoFloat, confidence |-> NoFloat]
    ELSE [raised |-> NoExc,
          prediction |-> Dot(features, w),
          confidence |-> Confidence(Dot(features, w))]

(***************************************************************************)
(* datetime.now().isoformat()                                              *)
(***************************************************************************)
StartClock ==
    [year |-> 2026, month |-> 11, day |-> 1,
     hour |-> 5, minute |-> 59, second |-> 59, microsecond |-> 500000]

\* the wall clock after t advances (no advance crosses midnight)
Now(t) ==
    LET us == StartClock.microsecond + t * TickMicros
        s  == StartClock.second + (us \div 1000000)
        m  == StartClock.minute + (s \div 60)
        h  == StartClock.hour + (m \div 60)
    IN  [StartClock EXCEPT !.microsecond = us % 1000000, !.second = s % 60,
                           !.minute = m % 60, !.hour = h]

Digits == <<"0", "1", "2", "3", "4", "5", "6", "7", "8", "9">>

RECURSIVE Pad_NoZeros(_, _)
\* "%d": no leading zeros
Pad_NoZeros(n, width) ==
    IF width = 0 \/ n = 0 THEN <<>>
    ELSE Pad_NoZeros(n \div 10, width - 1) \o <<Digits[(n % 10) + 1]>>

RECURSIVE Pad(_, _)
\* "%0<width>d" of a non-negative number below 10^width, one character per element
Pad(n, width) ==
    IF width = 0 THEN <<>> ELSE Pad(n \div 10, width - 1) \o <<Digits[(n % 10) + 1]>>

\* datetime.isoformat(): the fraction is left out when microsecond is 0
IsoFormat(dt) ==
    Pad(dt.year, 4) \o <<"-">> \o Pad(dt.month, 2) \o <<"-">> \o Pad(dt.day, 2)
    \o <<"T">> \o Pad(dt.hour, 2) \o <<":">> \o Pad(dt.minute, 2)
    \o <<":">> \o Pad(dt.second, 2)
    \o (IF dt.microsecond = 0 THEN <<>> ELSE <<".">> \o Pad(dt.microsecond, 6))

(***************************************************************************)
(* The HTTP handlers                                                       *)
(***************************************************************************)
Clients == 1..NumClients

FeatVals == {Fin(0), Fin(Scale), Fin(FMax)}

Vec(n, a, b) == [i \in 1..n |-> IF Odd(i) THEN a ELSE b]

\* request bodies that pass the list[float] schema
FeatureVectors ==
    { Vec(FeatureDim, a, a) : a \in FeatVals }
    \cup { Vec(FeatureDim, Fin(Scale), Fin(0)) }
    \cup { Vec(n, Fin(Scale), Fin(0)) : n \in {0, FeatureDim - 1, MaxLen} }

IdleSlot ==
    [pc |-> "idle", features |-> <<>>, prediction |-> NoFloat,
     confidence |-> NoFloat, exc |-> NoExc]

\* str(e) of an exception caught in predict
Str(e) ==
    IF e.type = "HTTPException"
    THEN ToString(e.status_code) \o ": " \o e.detail
    ELSE e.detail

IndexBytes == 132

\* pd.DataFrame({"test": [1, 2, 3]}).memory_usage(deep=True).sum()
MemoryUsage == IndexBytes + 3 * 8

Entry(endpoint, features, status, exc, body) ==
    [endpoint |-> endpoint, features |-> features, status |-> status,
     exc |-> exc, body |-> body]

\* GET /
Root ==
    /\ calls < MaxCalls
    /\ calls' = calls + 1
    /\ log' = Append(log, Entry("/", <<>>, 200, NoExc,
                  [service |-> "ML Prediction API", status |-> "healthy",
                   timestamp |-> IsoFormat(Now(clock))]))
    /\ UNCHANGED <<weights, clock, slots, direct>>

\* GET /health
HealthCheck ==
    /\ calls < MaxCalls
    /\ calls' = calls + 1
    /\ log' = Append(log, Entry("/health", <<>>, 200, NoExc,
                  [status |-> "ok", memory_usage |-> MemoryUsage]))
    /\ UNCHANGED <<weights, clock, slots, direct>>

\* POST /predict: the request body has been parsed, the handler is entered
\* (a new invocation takes the first free slot)
PredictEnter(r, f) ==
    /\ calls < MaxCalls
    /\ slots[r].pc = "idle"
    /\ \A q \in 1..(r - 1) : slots[q].pc # "idle"
    /\ calls' = calls + 1
    /\ slots' = [slots EXCEPT ![r] = [IdleSlot EXCEPT !.pc = "check", !.features = f]]
    /\ UNCHANGED <<weights, clock, log, direct>>

\* predict: the length check inside the try block
PredictCheck(r) ==
    /\ slots[r].pc = "check"
    /\ slots' = [slots EXCEPT ![r] =
           IF Len(@.features) # 10
           THEN [@ EXCEPT !.pc = "except",
                          !.exc = HTTPException(400, "Expected 10 features")]
           ELSE [@ EXCEPT !.pc = "score"]]
    /\ UNCHANGED <<weights, clock, log, calls, direct>>

\* builds a new SimpleModel() for the request
PredictScore_Reinit(r) ==
    /\ slots[r].pc = "score"
    /\ weights' \in WeightVectors
    /\ LET res == ModelPredict(slots[r].features, weights')
       IN  slots' = [slots EXCEPT ![r] =
               IF res.raised # NoExc
               THEN [@ EXCEPT !.pc = "except", !.exc = res.raised]
               ELSE [@ EXCEPT !.pc = "return", !.prediction = res.prediction,
                              !.confidence = res.confidence]]
    /\ UNCHANGED <<clock, log, calls, direct>>

\* scores, then adjusts the first weight in place
PredictScore_Update(r) ==
    /\ slots[r].pc = "score"
    /\ LET res == ModelPredict(slots[r].features, weights)
       IN  slots' = [slots EXCEPT ![r] =
               IF res.raised # NoExc
               THEN [@ EXCEPT !.pc = "except", !.exc = res.raised]
               ELSE [@ EXCEPT !.pc = "return", !.prediction = res.prediction,
                              !.confidence = res.confidence]]
    /\ weights' = [weights EXCEPT ![1] = FAdd(@, Fin(1))]
    /\ UNCHANGED <<clock, log, calls, direct>>

\* keeps prediction and confidence in module-level variables shared by all
\* requests in flight
PredictScore_Shared(r) ==
    /\ slots[r].pc = "score"
    /\ LET res == ModelPredict(slots[r].features, weights)
       IN  slots' = [q \in Clients |->
               IF q = r
               THEN (IF res.raised # NoExc
                     THEN [slots[q] EXCEPT !.pc = "except", !.exc = res.raised]
                     ELSE [slots[q] EXCEPT !.pc = "return",
                                           !.prediction = res.prediction,
                                           !.confidence = res.confidence])
               ELSE IF slots[q].pc = "return" /\ res.raised = NoExc
               THEN [slots[q] EXCEPT !.prediction = res.prediction,
                                     !.confidence = res.confidence]
               ELSE slots[q]]
    /\ UNCHANGED <<weights, clock, log, calls, direct>>

\* predict: prediction, confidence = model.predict(request.features)
PredictScore(r) ==
    /\ slots[r].pc = "score"
    /\ LET res == ModelPredict(slots[r].features, weights)
       IN  slots' = [slots EXCEPT ![r] =
               IF res.raised # NoExc
               THEN [@ EXCEPT !.pc = "except", !.exc = res.raised]
               ELSE [@ EXCEPT !.pc = "return", !.prediction = res.prediction,
                              !.confidence = res.confidence]]
    /\ UNCHANGED <<weights, clock, log, calls, direct>>

\* predict: return PredictionResponse(...); float() keeps the value
PredictReturn(r) ==
    /\ slots[r].pc = "return"
    /\ log' = Append(log, Entry("/predict", slots[r].features, 200, NoExc,
                  [prediction |-> slots[r].prediction,
                   confidence |-> slots[r].confidence,
                   timestamp |-> IsoFormat(Now(clock))]))
    /\ slots' = [slots EXCEPT ![r] = IdleSlot]
    /\ UNCHANGED <<weights, clock, calls, direct>>

\* predict: except Exception as e: raise HTTPException(500, str(e))
PredictExcept(r) ==
    /\ slots[r].pc = "except"
    /\ log' = Append(log, Entry("/predict", slots[r].features, 500, slots[r].exc,
                  [detail |-> Str(slots[r].exc)]))
    /\ slots' = [slots EXCEPT ![r] = IdleSlot]
    /\ UNCHANGED <<weights, clock, calls, direct>>

\* time passes
Tick ==
    /\ clock < MaxTicks
    /\ clock' = clock + 1
    /\ UNCHANGED <<weights, slots, log, calls, direct>>

NoResult == [raised |-> NoExc, prediction |-> NoFloat, confidence |-> NoFloat]

NoDirect == [called |-> FALSE, features |-> <<>>, result |-> NoResult]

\* model = SimpleModel() at import, before any request
Init ==
    /\ weights \in WeightVectors
    /\ clock = 0
    /\ slots = [r \in Clients |-> IdleSlot]
    /\ log = <<>>
    /\ calls = 0
    /\ direct = NoDirect

Next ==
    \/ Root
    \/ HealthCheck
    \/ \E r \in Clients, f \in FeatureVectors : PredictEnter(r, f)
    \/ \E r \in Clients : PredictCheck(r)
    \/ \E r \in Clients : PredictScore(r)
    \/ \E r \in Clients : PredictReturn(r)
    \/ \E r \in Clients : PredictExcept(r)
    \/ Tick

Spec == Init /\ [][Next]_vars

(***************************************************************************)
(* SimpleModel.predict called on its own, with lists of any length         *)
(***************************************************************************)
ScorerInputs ==
    { Vec(n, a, b) : n \in {0} \cup ((FeatureDim - 1)..MaxLen),
                     a \in FeatVals, b \in FeatVals }

InitScorer == Init

CallPredict(f) ==
    /\ direct' = [called |-> TRUE, features |-> f, result |-> ModelPredict(f, weights)]
    /\ UNCHANGED <<weights, clock, slots, log, calls>>

NextScorer == \E f \in ScorerInputs : CallPredict(f)

SpecScorer == InitScorer /\ [][NextScorer]_vars

(***************************************************************************)
(* Properties                                                              *)
(***************************************************************************)
Predicts == { i \in 1..Len(log) : log[i].endpoint = "/predict" }
Gets == { i \in 1..Len(log) : log[i].endpoint \in {"/", "/health"} }
Scored == { i \in Predicts : log[i].status = 200 }

DimensionError == HTTPException(400, "Expected 10 features")

\* C1: every POST /predict whose features list has a length other than 10
\* (the empty list included) is answered with HTTP 400.
C1_BadLengthIs400 ==
    \A i \in Predicts : Len(log[i].features) # 10 => log[i].status = 400

C3_Only500ForOtherErrors ==
    \A i \in Predicts :
        log[i].status = 500 =>
            /\ log[i].exc # DimensionError
            /\ log[i].body.detail = Str(log[i].exc)

ZeroVector == [i \in 1..FeatureDim |-> Fin(0)]

\* C4: for every weight vector, scoring the all-zero feature vector of length
\* 10 gives prediction 0 and confidence 0.
C4_ZeroVector ==
    \A i \in Predicts :
        log[i].features = ZeroVector =>
            /\ log[i].status = 200
            /\ log[i].body.prediction = Fin(0)
            /\ log[i].body.confidence = Fin(0)

C4_Witness ==
    \E i \in Predicts :
        /\ log[i].features = ZeroVector
        /\ log[i].status = 200
        /\ \E k \in 1..FeatureDim : weights[k] # Fin(0)

\* 9.5
Saturation == Fin((95 * Scale) \div 10)

\* C5: confidence is monotonically non-decreasing in abs(prediction): of two
\* scoring results the one with the larger abs(prediction) has the larger or
\* equal confidence; confidence is abs(prediction)/10 while that ratio is below
\* 0.95 and is exactly 0.95 whenever abs(prediction) >= 9.5.
C5_Monotone ==
    /\ \A i \in Scored, j \in Scored :
           FLeq(FAbs(log[i].body.prediction), FAbs(log[j].body.prediction))
               => FLeq(log[i].body.confidence, log[j].body.confidence)
    /\ \A i \in Scored :
           LET ratio == FDivInt(FAbs(log[i].body.prediction), 10)
           IN  /\ FLess(ratio, ConfidenceCap) => log[i].body.confidence = ratio
               /\ FLeq(Saturation, FAbs(log[i].body.prediction))
                      => log[i].body.confidence = ConfidenceCap

C5_Witness ==
    \E i \in Scored, j \in Scored :
        /\ FLess(FAbs(log[i].body.prediction), FAbs(log[j].body.prediction))
        /\ log[i].body.prediction.v < 0
        /\ FLess(log[i].body.confidence, ConfidenceCap)
        /\ log[j].body.confidence = ConfidenceCap

Consecutive ==
    { i \in 1..(Len(log) - 1) :
        /\ log[i].endpoint = "/predict"
        /\ log[i + 1].endpoint = "/predict"
        /\ log[i].features = log[i + 1].features }

\* C6 as stated: two consecutive POST /predict calls with identical input
\* return identical output.
C6_IdenticalOutput ==
    \A i \in Consecutive :
        /\ log[i].status = log[i + 1].status
        /\ log[i].body = log[i + 1].body

\* C6 as amended: two consecutive POST /predict calls with identical input
\* return the same status, and the same prediction and confidence (or the same
\* error detail); the timestamp is the time of each call.
C6_SameScore ==
    \A i \in Consecutive :
        /\ log[i].status = log[i + 1].status
        /\ log[i].status = 200 =>
              /\ log[i].body.prediction = log[i + 1].body.prediction
              /\ log[i].body.confidence = log[i + 1].body.confidence
        /\ log[i].status # 200 => log[i].body.detail = log[i + 1].body.detail

C6_Witness ==
    \E i \in Consecutive :
        /\ log[i].status = 200
        /\ log[i].body.prediction # Fin(0)
        /\ log[i].body.timestamp # log[i + 1].body.timestamp

IsDigit(c) == \E d \in 1..10 : Digits[d] = c

DigitVal(c) == (CHOOSE d \in 1..10 : Digits[d] = c) - 1

\* the number written at positions i and i + 1
TwoDigits(s, i) == DigitVal(s[i]) * 10 + DigitVal(s[i + 1])

\* YYYY-MM-DDTHH:MM:SS with an optional .ffffff
IsISO8601(s) ==
    /\ Len(s) \in {19, 26}
    /\ \A i \in 1..Len(s) :
           IF i \in {5, 8} THEN s[i] = "-"
           ELSE IF i = 11 THEN s[i] = "T"
           ELSE IF i \in {14, 17} THEN s[i] = ":"
           ELSE IF i = 20 THEN s[i] = "."
           ELSE IsDigit(s[i])
    /\ TwoDigits(s, 6) \in 1..12
    /\ TwoDigits(s, 9) \in 1..31
    /\ TwoDigits(s, 12) \in 0..23
    /\ TwoDigits(s, 15) \in 0..59
    /\ TwoDigits(s, 18) \in 0..59

C8_WeightsFrozen ==
    [][weights' = weights /\ Len(weights') = FeatureDim]_vars

C8_Witness ==
    /\ weights \in WeightVectors
    /\ \E i \in Predicts, j \in Predicts :
           /\ log[i].status = 200
           /\ log[j].status # 200

\* what a request receives when it is the only one the process handles
Solo(f, w) ==
    IF Len(f) # 10
    THEN [status |-> 500, prediction |-> NoFloat, confidence |-> NoFloat]
    ELSE [status |-> 200, prediction |-> Dot(f, w),
          confidence |-> Confidence(Dot(f, w))]

\* C9: whatever requests are in flight at once and however their handlers
\* interleave, each request gets the status, prediction and confidence it
\* would get if it were the only request handled.
C9_Independent ==
    /\ \A i \in Predicts :
           LET solo == Solo(log[i].features, weights)
           IN  /\ log[i].status = solo.status
               /\ log[i].status = 200 =>
                      /\ log[i].body.prediction = solo.prediction
                      /\ log[i].body.confidence = solo.confidence
    /\ \A r \in Clients :
           slots[r].pc = "return" =>
               LET solo == Solo(slots[r].features, weights)
               IN  /\ solo.status = 200
                   /\ slots[r].prediction = solo.prediction
                   /\ slots[r].confidence = solo.confidence

C9_Witness ==
    \E r \in Clients, q \in Clients :
        /\ r # q
        /\ slots[r].pc = "return"
        /\ slots[q].pc = "return"
        /\ slots[r].prediction # slots[q].prediction

RECURSIVE SumFrom(_, _, _, _)
SumFrom(f, w, i, acc) ==
    IF i > Len(f) THEN acc ELSE SumFrom(f, w, i + 1, FAdd(acc, FMul(f[i], w[i])))

InnerProduct(f, w) == SumFrom(f, w, 1, Fin(0))

\* C10: SimpleModel.predict signals the dimension-mismatch error, and returns
\* no pair, exactly when len(features) differs from len(weights); with equal
\* lengths it returns the inner product of features and weights as prediction
\* and does not signal the error.
C10_PredictContract ==
    direct.called =>
        /\ (direct.result.raised = ValueError("Feature dimension mismatch"))
               <=> (Len(direct.features) # Len(weights))
        /\ Len(direct.features) # Len(weights) => direct.result = [NoResult EXCEPT
               !.raised = ValueError("Feature dimension mismatch")]
        /\ Len(direct.features) = Len(weights) =>
               /\ direct.result.raised = NoExc
               /\ direct.result.prediction = InnerProduct(direct.features, weights)

C10_Witness ==
    /\ direct.called
    /\ Len(direct.features) = Len(weights)
    /\ IsFin(direct.result.prediction)
    /\ direct.result.prediction # Fin(0)

====
